---- MODULE Spec2Model ----
(***************************************************************************)
(* A model of the hydrosat_project pipeline (dagster/hydrosat_project):     *)
(* the raster generators, zonal_statistics, generate_random_field_polygons  *)
(* the hydrosat_data and dependent_asset assets, and the IO manager of      *)
(* resources.py.                                                            *)
(*                                                                          *)
(* Numbers.  The code computes in floating point; the model computes in     *)
(* exact integer arithmetic:                                                *)
(*   - map coordinates and pixel sizes are integers (map units); a pixel    *)
(*     centre x_origin + (x + 0.5) * pixel_width is kept doubled,           *)
(*     2*x_origin + (2x + 1) * pixel_width;                                 *)
(*   - Python's int(a / b) is TruncDiv(a, b), truncation toward zero;       *)
(*   - signal values in [0, 1] are thousandths (Milli = 1000).              *)
(***************************************************************************)
EXTENDS Integers, Sequences, FiniteSets, TLC

VARIABLES
    pc,            \* which call of the checked function has happened
    raster,        \* zonal_statistics: [height, width, cells]
    geotransform,  \* zonal_statistics: <<x_origin, pixel_width, 0, y_origin, 0, -pixel_height>>
    polygon,       \* zonal_statistics: sequence of vertices <<x, y>>
    stats,         \* zonal_statistics: the returned dictionary
    reads,         \* zonal_statistics: the index pairs <<y, x>> used in raster[y, x]
    bbox,          \* raster generators: bbox.bounds, <<minx, miny, maxx, maxy>>
    resolution,    \* raster generators: the resolution argument
    date,          \* raster generators: the date argument, <<year, month, day>>
    ndvi_raster,   \* generate_soil_moisture_raster: the ndvi_raster argument
    out,           \* raster generators: what the call returned or raised
    num_fields,    \* generate_random_field_polygons: the num_fields argument
    min_size,      \* generate_random_field_polygons: min_size, in thousandths
    max_size,      \* generate_random_field_polygons: max_size, in thousandths
    fields,        \* generate_random_field_polygons: the returned list
    storage,       \* the blobs of container "data": blob name -> content
    returned,      \* the DataFrame the last asset run returned
    runs,          \* the number of asset runs so far
    partition_key, \* context.partition_key of the last asset run
    asset_values,  \* partition -> the DataFrame hydrosat_data last returned for it
    outputs,       \* the blobs of container "outputs" (SimplePickleIOManager)
    handled,       \* <<asset, partition>> -> the object last given to handle_output
    loaded         \* the last load_input: [key, obj]

zonalVars == <<raster, geotransform, polygon, stats, reads>>

genVars == <<bbox, resolution, date, ndvi_raster, out>>

fieldVars == <<num_fields, min_size, max_size, fields>>

pipeVars ==
    <<storage, returned, runs, partition_key, asset_values, outputs, handled, loaded>>

vars == <<pc, zonalVars, genVars, fieldVars, pipeVars>>

Null == "None"

-----------------------------------------------------------------------------
(* Arithmetic helpers *)

Abs(a) == IF a < 0 THEN -a ELSE a

MaxOf(a, b) == IF a >= b THEN a ELSE b

MinOf(a, b) == IF a <= b THEN a ELSE b

\* Python int(a / b) for b # 0: the quotient truncated toward zero.
TruncDiv(a, b) ==
    IF (a >= 0) = (b > 0) THEN Abs(a) \div Abs(b) ELSE -(Abs(a) \div Abs(b))

RECURSIVE SeqSum(_)
SeqSum(s) == IF s = <<>> THEN 0 ELSE Head(s) + SeqSum(Tail(s))

RECURSIVE SeqMin(_)
SeqMin(s) == IF Len(s) = 1 THEN s[1] ELSE MinOf(Head(s), SeqMin(Tail(s)))

RECURSIVE SeqMax(_)
SeqMax(s) == IF Len(s) = 1 THEN s[1] ELSE MaxOf(Head(s), SeqMax(Tail(s)))

-----------------------------------------------------------------------------
(* Polygons (shapely).  A polygon is the sequence of its vertices, convex   *)
(* and counter-clockwise, as the rectangles of the field generator are.     *)

\* polygon.bounds: (minx, miny, maxx, maxy) over the vertices.
RECURSIVE SeqMinAt(_, _)
SeqMinAt(poly, k) ==
    IF Len(poly) = 1 THEN poly[1][k] ELSE MinOf(Head(poly)[k], SeqMinAt(Tail(poly), k))

RECURSIVE SeqMaxAt(_, _)
SeqMaxAt(poly, k) ==
    IF Len(poly) = 1 THEN poly[1][k] ELSE MaxOf(Head(poly)[k], SeqMaxAt(Tail(poly), k))

PolyBounds(poly) ==
    <<SeqMinAt(poly, 1), SeqMinAt(poly, 2), SeqMaxAt(poly, 1), SeqMaxAt(poly, 2)>>

\* polygon.contains(Point(x, y)) for the point (px2 / 2, py2 / 2): the point
\* lies in the interior (a point on the boundary is not contained), i.e.
\* strictly to the left of every edge.
PolyContains(poly, px2, py2) ==
    \A i \in 1..Len(poly) :
        LET a == poly[i]
            b == poly[(i % Len(poly)) + 1]
        IN  (b[1] - a[1]) * (py2 - 2 * a[2]) - (b[2] - a[2]) * (px2 - 2 * a[1]) > 0

Rect(x1, y1, x2, y2) == <<<<x1, y1>>, <<x2, y1>>, <<x2, y2>>, <<x1, y2>>>>

Diamond(cx, cy, r) == <<<<cx + r, cy>>, <<cx, cy + r>>, <<cx - r, cy>>, <<cx, cy - r>>>>

-----------------------------------------------------------------------------
(* zonal_statistics *)

\* Twice the real-world coordinates of the centre of pixel (y, x).
real_x2(gt, x) == 2 * gt[1] + (2 * x + 1) * gt[2]

\* Variant: the row offset added instead of subtracted.
real_y2_upward(gt, y) == 2 * gt[4] + (2 * y + 1) * Abs(gt[6])

real_y2(gt, y) == 2 * gt[4] - (2 * y + 1) * Abs(gt[6])

\* Variants of the window computation with one plausible slip each: the lower
\* bound rounded up, and the lower bound not clamped to 0.
x_min_px_ceil(gt, bounds) ==
    MaxOf(0, TruncDiv(bounds[1] - gt[1] + gt[2] - 1, gt[2]))

x_min_px_noclamp(gt, bounds) == TruncDiv(bounds[1] - gt[1], gt[2])

x_min_px(gt, bounds) == MaxOf(0, TruncDiv(bounds[1] - gt[1], gt[2]))

y_min_px(gt, bounds) == MaxOf(0, TruncDiv(gt[4] - bounds[4], Abs(gt[6])))

x_max_px(gt, bounds, width) == MinOf(width - 1, TruncDiv(bounds[3] - gt[1], gt[2]))

y_max_px(gt, bounds, height) == MinOf(height - 1, TruncDiv(gt[4] - bounds[2], Abs(gt[6])))

\* Variant: range(x_min_px, x_max_px), the last column left out.
ScanWindow_exclusive(r, gt, poly) ==
    LET b  == PolyBounds(poly)
        x0 == MaxOf(0, TruncDiv(b[1] - gt[1], gt[2]))
        y0 == MaxOf(0, TruncDiv(gt[4] - b[4], Abs(gt[6])))
        nx == MaxOf(0, MinOf(r.width - 1, TruncDiv(b[3] - gt[1], gt[2])) - x0)
        ny == MaxOf(0, MinOf(r.height - 1, TruncDiv(gt[4] - b[2], Abs(gt[6]))) - y0 + 1)
    IN  [i \in 1..(nx * ny) |-> <<y0 + ((i - 1) \div nx), x0 + ((i - 1) % nx)>>]

\* The pixels of the two nested range() loops, in the order they are visited.
ScanWindow(r, gt, poly) ==
    LET b  == PolyBounds(poly)
        x0 == x_min_px(gt, b)
        y0 == y_min_px(gt, b)
        nx == MaxOf(0, x_max_px(gt, b, r.width) - x0 + 1)
        ny == MaxOf(0, y_max_px(gt, b, r.height) - y0 + 1)
    IN  [i \in 1..(nx * ny) |-> <<y0 + ((i - 1) \div nx), x0 + ((i - 1) % nx)>>]

\* The pixels whose centre the polygon contains: the ones raster[y, x] is read for.
Selected(r, gt, poly) ==
    SelectSeq(ScanWindow(r, gt, poly),
              LAMBDA c : PolyContains(poly, real_x2(gt, c[2]), real_y2(gt, c[1])))

\* numpy indexing raster[y, x]: a negative index counts from the end, an index
\* outside [-n, n-1] raises IndexError.
IndexOk(r, c) ==
    /\ c[1] >= -r.height /\ c[1] < r.height
    /\ c[2] >= -r.width  /\ c[2] < r.width

RasterAt(r, c) ==
    r.cells[<<IF c[1] < 0 THEN c[1] + r.height ELSE c[1],
              IF c[2] < 0 THEN c[2] + r.width ELSE c[2]>>]

\* The dictionary of statistics.  mean is the fraction <<sum, count>>; std is
\* given by the variance under its square root, the fraction
\* <<count * sum of squares - sum^2, count^2>>.
StatsOf(values) ==
    IF values # <<>>
    THEN LET n  == Len(values)
             s  == SeqSum(values)
             sq == SeqSum([i \in 1..n |-> values[i] * values[i]])
         IN  [min |-> SeqMin(values), max |-> SeqMax(values), mean |-> <<s, n>>,
              std |-> <<n * sq - s * s, n * n>>, count |-> n, error |-> Null]
    ELSE [min |-> Null, max |-> Null, mean |-> Null, std |-> Null, count |-> 0,
          error |-> Null]

zonal_statistics(r, gt, poly) ==
    LET sel == Selected(r, gt, poly)
    IN  IF \E i \in 1..Len(sel) : ~IndexOk(r, sel[i])
        THEN [min |-> Null, max |-> Null, mean |-> Null, std |-> Null, count |-> 0,
              error |-> "IndexError"]
        ELSE StatsOf([i \in 1..Len(sel) |-> RasterAt(r, sel[i])])

-----------------------------------------------------------------------------
(* Bounds of the inputs *)

MaxDim == 2     \* rasters have 1..MaxDim rows and 1..MaxDim columns

MaxSeed == 1    \* raster contents: patterns 0..MaxSeed

Margin == 1     \* polygon vertices reach Margin map units beyond the rasters

-----------------------------------------------------------------------------
(* Inputs of zonal_statistics *)

Cells(h, w) == (0..(h - 1)) \X (0..(w - 1))

\* Raster contents: all zero (seed 0), otherwise values that differ between
\* neighbouring cells, negative ones included (temperatures are unbounded).
RasterOf(h, w, seed) ==
    [height |-> h, width |-> w,
     cells  |-> [c \in Cells(h, w) |-> ((seed * (1 + c[1] * w + c[2])) % 4) - (seed % 2)]]

\* Geotransforms as the generators build them, (minx, resolution, 0, maxy, 0,
\* -resolution), for a raster of h rows: resolution 2 anchored at (0, 2h), and
\* one with different pixel width and height.
Geotransforms(h) == {<<0, 2, 0, 2 * h, 0, -2>>, <<1, 3, 0, h + 1, 0, -1>>}

Coords == (-Margin)..(2 * MaxDim + Margin)

Polygons ==
    {Rect(x1, y1, x2, y2) : <<x1, y1, x2, y2>> \in
        {q \in Coords \X Coords \X Coords \X Coords : q[1] < q[3] /\ q[2] < q[4]}}
    \cup
    {Diamond(q[1], q[2], q[3]) : q \in Coords \X Coords \X (1..(Margin + 1))}

\* The variables of a function that a specification does not exercise.
ZonalIdle ==
    /\ raster = Null /\ geotransform = Null /\ polygon = Null
    /\ stats = Null /\ reads = {}

GenIdle ==
    /\ bbox = Null /\ resolution = Null /\ date = Null
    /\ ndvi_raster = Null /\ out = Null

FieldIdle ==
    /\ num_fields = Null /\ min_size = Null /\ max_size = Null /\ fields = Null

PipeIdle ==
    /\ storage = Null /\ returned = Null /\ runs = 0
    /\ partition_key = Null /\ asset_values = Null
    /\ outputs = Null /\ handled = Null /\ loaded = Null

ZonalInit ==
    /\ pc = "start"
    /\ GenIdle
    /\ FieldIdle
    /\ PipeIdle
    /\ \E h \in 1..MaxDim, w \in 1..MaxDim, seed \in 0..MaxSeed :
          /\ raster = RasterOf(h, w, seed)
          /\ geotransform \in Geotransforms(h)
    /\ polygon \in Polygons
    /\ stats = Null
    /\ reads = {}

ZonalStatistics ==
    /\ pc = "start"
    /\ stats' = zonal_statistics(raster, geotransform, polygon)
    /\ reads' = {Selected(raster, geotransform, polygon)[i] :
                    i \in 1..Len(Selected(raster, geotransform, polygon))}
    /\ pc' = "done"
    /\ UNCHANGED <<raster, geotransform, polygon, genVars, fieldVars, pipeVars>>

ZonalNext == ZonalStatistics

SpecZonal == ZonalInit /\ [][ZonalNext]_vars

-----------------------------------------------------------------------------
(* Fixed-point numbers and trigonometry for the raster generators.  Signal   *)
(* values, factors and angles (radians) are in thousandths.  np.sin is       *)
(* Bhaskara's rational approximation, accurate to 2 thousandths; the claims  *)
(* checked here do not rest on the accuracy.                                 *)

Milli == 1000

PiMilli == 3142

TwoPiMilli == 6283

\* sin on [0, pi].
SinHalfTurn(x) ==
    LET p == x * (PiMilli - x)
    IN  (16 * p) \div ((5 * PiMilli * PiMilli - 4 * p) \div Milli)

SinMilli(x) ==
    LET t == ((x % TwoPiMilli) + TwoPiMilli) % TwoPiMilli
    IN  IF t <= PiMilli THEN SinHalfTurn(t) ELSE -SinHalfTurn(MinOf(t - PiMilli, PiMilli))

CosMilli(x) == SinMilli(x + PiMilli \div 2)

\* Variant: no upper limit.
Clip_lower_only(v, lo, hi) == MaxOf(v, lo)

\* np.clip(v, lo, hi)
Clip(v, lo, hi) == MinOf(MaxOf(v, lo), hi)

-----------------------------------------------------------------------------
(* Dates: a date string "YYYY-MM-DD" is the triple <<year, month, day>>.      *)

IsLeap(y) == (y % 4 = 0 /\ y % 100 # 0) \/ y % 400 = 0

DaysInMonth(y, m) ==
    IF m = 2 THEN (IF IsLeap(y) THEN 29 ELSE 28)
    ELSE IF m \in {4, 6, 9, 11} THEN 30 ELSE 31

RECURSIVE DaysBeforeMonth(_, _)
DaysBeforeMonth(y, m) ==
    IF m = 1 THEN 0 ELSE DaysBeforeMonth(y, m - 1) + DaysInMonth(y, m - 1)

\* datetime.strptime(date, "%Y-%m-%d").timetuple().tm_yday
DayOfYear(d) == DaysBeforeMonth(d[1], d[2]) + d[3]

-----------------------------------------------------------------------------
(* The raster generators *)

\* Variant: the quotient rounded to the nearest integer instead of truncated.
GridSize_rounded(extent, res) ==
    IF res = 0 THEN "ZeroDivisionError"
    ELSE IF (extent >= 0) = (res > 0)
         THEN (2 * Abs(extent) + Abs(res)) \div (2 * Abs(res))
         ELSE -((2 * Abs(extent) + Abs(res)) \div (2 * Abs(res)))

\* int((maxx - minx) / resolution): the division raises for resolution 0.
GridSize(extent, res) ==
    IF res = 0 THEN "ZeroDivisionError" ELSE TruncDiv(extent, res)

Raised(kind, error) ==
    [kind |-> kind, status |-> error, raster |-> Null, geotransform |-> Null]

Returned(kind, h, w, cells, gt) ==
    [kind |-> kind, status |-> "ok",
     raster |-> [height |-> h, width |-> w, cells |-> cells], geotransform |-> gt]

\* The grid of the nested loops over range(height) and range(width).
LoopCells(h, w) == Cells(MaxOf(h, 0), MaxOf(w, 0))

ndvi_seasonal_base(d) ==
    200 + (300 * MaxOf(0, SinMilli(((DayOfYear(d) - 80) * TwoPiMilli) \div 365))) \div Milli

\* <<land_factor, noise_level>> of cell (i, j): forest, urban or agricultural.
ndvi_land(i, j, h, w) ==
    IF 10 * ((2 * j - w) * (2 * j - w) * h * h + (2 * i - h) * (2 * i - h) * w * w)
          < 4 * w * w * h * h
    THEN <<800, 50>>
    ELSE IF 10 * j < 3 * w /\ 10 * i < 3 * h
    THEN <<200, 50>>
    ELSE <<500 + TruncDiv(200 * SinMilli((10 * Milli * j) \div w)
                              * CosMilli((8 * Milli * i) \div h), Milli * Milli),
           100>>

\* One cell; z is the draw of np.random.normal in standard deviations.
ndvi_cell(d, i, j, h, w, z) ==
    Clip((ndvi_seasonal_base(d) * ndvi_land(i, j, h, w)[1]) \div Milli
            + ndvi_land(i, j, h, w)[2] * z, 0, Milli)

\* generate_ndvi_raster(bbox, date, resolution) with the noise draws z.
generate_ndvi_raster(b, d, res, z) ==
    LET width  == GridSize(b[3] - b[1], res)
        height == GridSize(b[4] - b[2], res)
    IN  IF res = 0 THEN Raised("ndvi", "ZeroDivisionError")
        ELSE IF width < 0 \/ height < 0 THEN Raised("ndvi", "ValueError")
        ELSE Returned("ndvi", height, width,
                      [c \in LoopCells(height, width) |->
                          ndvi_cell(d, c[1], c[2], height, width, z[c])],
                      <<b[1], res, 0, b[4], 0, -res>>)

soil_seasonal_base(d) ==
    300 + TruncDiv(200 * CosMilli(((DayOfYear(d) - 30) * TwoPiMilli) \div 365), Milli)

soil_cell(d, ndvi, z) ==
    Clip((soil_seasonal_base(d) * (500 + ndvi \div 2)) \div Milli + 80 * z, 0, Milli)

\* generate_soil_moisture_raster(bbox, date, ndvi_raster, resolution): the
\* dimensions are those of ndvi_raster; bbox and resolution are not used.
generate_soil_moisture_raster(b, d, nd, res, z) ==
    Returned("soil_moisture", nd.height, nd.width,
             [c \in LoopCells(nd.height, nd.width) |-> soil_cell(d, nd.cells[c], z[c])],
             Null)

temperature_cell(d, i, j, h, w, z) ==
    15 * Milli + 10 * SinMilli(((DayOfYear(d) - 80) * TwoPiMilli) \div 365)
      - (5 * Milli * ((10 * j - 7 * w) * (10 * j - 7 * w) * h * h
                        + (10 * i - 3 * h) * (10 * i - 3 * h) * w * w))
            \div (100 * w * w * h * h)
      + Milli * z

\* generate_temperature_raster(bbox, date, resolution) with the noise draws z.
generate_temperature_raster(b, d, res, z) ==
    LET width  == GridSize(b[3] - b[1], res)
        height == GridSize(b[4] - b[2], res)
    IN  IF res = 0 THEN Raised("temperature", "ZeroDivisionError")
        ELSE IF width < 0 \/ height < 0 THEN Raised("temperature", "ValueError")
        ELSE Returned("temperature", height, width,
                      [c \in LoopCells(height, width) |->
                          temperature_cell(d, c[1], c[2], height, width, z[c])],
                      Null)

-----------------------------------------------------------------------------
(* Inputs of the raster generators *)

MaxExtent == 4  \* bounding boxes are up to MaxExtent map units wide and high

ZMax == 20      \* a noise draw is -ZMax, 0 or ZMax standard deviations

\* bbox.bounds; minx = maxx or miny = maxy is a degenerate box.
BBoxes == {<<0, 0, maxx, maxy>> : maxx \in 0..MaxExtent, maxy \in 0..MaxExtent}

Resolutions == {-(MaxExtent + 1), -2, 0, 2, 3}

Dates == {<<2024, 1, 30>>, <<2024, 6, 19>>}

ZSet == {-ZMax, 0, ZMax}

\* Vegetation rasters handed to generate_soil_moisture_raster: values in [0, 1].
NdviInputs ==
    {[height |-> q[1], width |-> q[2],
      cells  |-> [c \in Cells(q[1], q[2]) |-> ((q[3] + c[1] + 2 * c[2]) % 3) * 500]] :
        q \in {1, 2} \X {1, 2} \X {0, 1, 2}}

\* The cells the generators draw noise for.
GridCells(b, res) ==
    IF res = 0 THEN {}
    ELSE LoopCells(GridSize(b[4] - b[2], res), GridSize(b[3] - b[1], res))

RasterInit ==
    /\ pc = "start"
    /\ ZonalIdle
    /\ FieldIdle
    /\ PipeIdle
    /\ bbox \in BBoxes
    /\ resolution \in Resolutions
    /\ date \in Dates
    /\ ndvi_raster \in NdviInputs
    /\ out = Null

GenerateNdviRaster ==
    /\ pc = "start"
    /\ \E z \in [GridCells(bbox, resolution) -> ZSet] :
          out' = generate_ndvi_raster(bbox, date, resolution, z)
    /\ pc' = "done"
    /\ UNCHANGED <<bbox, resolution, date, ndvi_raster, zonalVars, fieldVars, pipeVars>>

GenerateSoilMoistureRaster ==
    /\ pc = "start"
    /\ \E z \in [Cells(ndvi_raster.height, ndvi_raster.width) -> ZSet] :
          out' = generate_soil_moisture_raster(bbox, date, ndvi_raster, resolution, z)
    /\ pc' = "done"
    /\ UNCHANGED <<bbox, resolution, date, ndvi_raster, zonalVars, fieldVars, pipeVars>>

GenerateTemperatureRaster ==
    /\ pc = "start"
    /\ \E z \in [GridCells(bbox, resolution) -> ZSet] :
          out' = generate_temperature_raster(bbox, date, resolution, z)
    /\ pc' = "done"
    /\ UNCHANGED <<bbox, resolution, date, ndvi_raster, zonalVars, fieldVars, pipeVars>>

RasterNext ==
    \/ GenerateNdviRaster
    \/ GenerateSoilMoistureRaster
    \/ GenerateTemperatureRaster

SpecRaster == RasterInit /\ [][RasterNext]_vars

-----------------------------------------------------------------------------
(* Calendar arithmetic (datetime, timedelta) from 2024-01-01 on *)

start_date == <<2024, 1, 1>>

end_date == <<2024, 4, 30>>

YearDays(y) == IF IsLeap(y) THEN 366 ELSE 365

RECURSIVE DaysBeforeYear(_)
DaysBeforeYear(y) ==
    IF y <= start_date[1] THEN 0 ELSE DaysBeforeYear(y - 1) + YearDays(y - 1)

\* (d - start_date).days
Ordinal(d) == DaysBeforeYear(d[1]) + DayOfYear(d) - 1

\* (b - a).days
DaysBetween(a, b) == Ordinal(b) - Ordinal(a)

\* (d + timedelta(days=k)).strftime("%Y-%m-%d") for k >= 0
RECURSIVE AddDays(_, _)
AddDays(d, k) ==
    IF d[3] + k <= DaysInMonth(d[1], d[2]) THEN <<d[1], d[2], d[3] + k>>
    ELSE AddDays(IF d[2] = 12 THEN <<d[1] + 1, 1, 1>> ELSE <<d[1], d[2] + 1, 1>>,
                 k - (DaysInMonth(d[1], d[2]) - d[3] + 1))

\* a <= b on date strings: zero-padded, so compared field by field.
DateLeq(a, b) ==
    \/ a[1] < b[1]
    \/ a[1] = b[1] /\ a[2] < b[2]
    \/ a[1] = b[1] /\ a[2] = b[2] /\ a[3] <= b[3]

-----------------------------------------------------------------------------
(* generate_random_field_polygons *)

\* Variant: the range taken one day too long.
date_range_long == DaysBetween(start_date, end_date) + 1

date_range == DaysBetween(start_date, end_date)

\* The offsets (dx, dy) of the four corners, doubled.
CornerSigns == <<<<-1, -1>>, <<1, -1>>, <<1, 1>>, <<-1, 1>>>>

\* The corners of one field, in units of 1 / (2 * Milli * Milli) map units.
\* dr holds the random draws: ux, uy (random.uniform(0.2, 0.8), thousandths),
\* t (the position of random.uniform(min_size, max_size) between its ends,
\* thousandths), angle (degrees), day (random.randint) and crop.
FieldCorners(b, mn, mx, dr) ==
    LET center_x     == Milli * b[1] + dr.ux * (b[3] - b[1])
        center_y     == Milli * b[2] + dr.uy * (b[4] - b[2])
        field_size   == mn + ((mx - mn) * dr.t) \div Milli
        field_width  == field_size * (b[3] - b[1])
        field_height == field_size * (b[4] - b[2])
        cosA         == CosMilli((dr.angle * PiMilli) \div 180)
        sinA         == SinMilli((dr.angle * PiMilli) \div 180)
    IN  [k \in 1..4 |->
            <<2 * Milli * center_x + CornerSigns[k][1] * field_width * cosA
                                   - CornerSigns[k][2] * field_height * sinA,
              2 * Milli * center_y + CornerSigns[k][1] * field_width * sinA
                                   + CornerSigns[k][2] * field_height * cosA>>]

\* generate_random_field_polygons(bbox, num_fields, min_size, max_size) with
\* the random draws of its iterations; range(num_fields) is empty for
\* num_fields <= 0 and nothing in the function raises.
generate_random_field_polygons(b, n, mn, mx, draws) ==
    [i \in 1..MaxOf(n, 0) |->
        [id            |-> <<"field", i>>,
         name          |-> <<draws[i].crop, "Field", i>>,
         crop_type     |-> draws[i].crop,
         planting_date |-> AddDays(start_date, draws[i].day),
         polygon       |-> FieldCorners(b, mn, mx, draws[i])]]

-----------------------------------------------------------------------------
(* Inputs of generate_random_field_polygons *)

MaxFields == 2  \* num_fields is at most MaxFields

FieldBBoxes == {<<0, 0, 4, 4>>, <<10, 45, 11, 46>>}

\* <<min_size, max_size>>: the defaults, min > max, a zero fraction, a fraction > 1.
SizePairs == {<<50, 150>>, <<150, 50>>, <<0, 100>>, <<500, 2000>>}

FieldDraws ==
    {[ux |-> q[1][1], uy |-> q[1][2], crop |-> q[1][3], t |-> q[2], angle |-> q[3],
      day |-> q[4]] :
        q \in {<<200, 800, "Corn">>, <<800, 200, "Rice">>} \X {0, Milli} \X {0, 45, 90}
              \X {0, date_range}}

FieldInit ==
    /\ pc = "start"
    /\ ZonalIdle
    /\ PipeIdle
    /\ resolution = Null /\ date = Null /\ ndvi_raster = Null /\ out = Null
    /\ bbox \in FieldBBoxes
    /\ num_fields \in (-1)..MaxFields
    /\ \E sz \in SizePairs : min_size = sz[1] /\ max_size = sz[2]
    /\ fields = Null

GenerateRandomFieldPolygons ==
    /\ pc = "start"
    /\ \E draws \in [1..MaxOf(num_fields, 0) -> FieldDraws] :
          fields' = generate_random_field_polygons(bbox, num_fields, min_size, max_size, draws)
    /\ pc' = "done"
    /\ UNCHANGED <<num_fields, min_size, max_size, zonalVars, genVars, pipeVars>>

FieldNext == GenerateRandomFieldPolygons

SpecFields == FieldInit /\ [][FieldNext]_vars

-----------------------------------------------------------------------------
(* hydrosat_data: one run of the asset for a partition date *)

\* bbox = box(10.0, 45.0, 11.0, 46.0)
PipelineBBox == <<10, 45, 11, 46>>

\* The defaults of generate_random_field_polygons, in thousandths.
DefaultMinSize == 50

DefaultMaxSize == 150

fields_filename == <<"field_definitions.json", <<>>>>

\* f"hydrosat_data_{date}.csv", f"plots/ndvi_{date}.png", ...
BlobName(stem, d) == <<stem, d>>

HasBlob(st, name) == name \in DOMAIN st

\* blob_client.upload_blob(name=..., data=..., overwrite=True)
UploadBlob(st, name, data) == (name :> data) @@ st

\* list(field["polygon"].exterior.coords): the ring, closed by its first point.
ExteriorCoords(poly) == Append(poly, poly[1])

\* Polygon(field["polygon_coords"]): the closing point is not a vertex.
PolygonOf(coords) ==
    IF Len(coords) > 1 /\ coords[Len(coords)] = coords[1]
    THEN SubSeq(coords, 1, Len(coords) - 1)
    ELSE coords

\* json.dumps(fields_json): polygon replaced by polygon_coords.
FieldsToJson(fs) ==
    [i \in 1..Len(fs) |->
        [id |-> fs[i].id, name |-> fs[i].name, crop_type |-> fs[i].crop_type,
         planting_date |-> fs[i].planting_date,
         polygon_coords |-> ExteriorCoords(fs[i].polygon)]]

\* json.loads(blob_data), each polygon rebuilt from polygon_coords.
FieldsFromJson(js) ==
    [i \in 1..Len(js) |->
        [id |-> js[i].id, name |-> js[i].name, crop_type |-> js[i].crop_type,
         planting_date |-> js[i].planting_date,
         polygon |-> PolygonOf(js[i].polygon_coords)]]

\* Some edge of convex polygon A has all of B strictly on its outer side.
Separated(A, B) ==
    \E i \in 1..Len(A) :
        LET a == A[i]
            b == A[(i % Len(A)) + 1]
        IN  \A k \in 1..Len(B) :
                (b[1] - a[1]) * (B[k][2] - a[2]) - (b[2] - a[2]) * (B[k][1] - a[1]) < 0

\* polygon.intersects(bbox) for a field polygon (corners in units of
\* 1 / (2 * Milli * Milli)), decided on coordinates relative to the box and
\* rounded to 1 / (2 * Milli).
Intersects(poly, b) ==
    LET q   == [k \in 1..Len(poly) |->
                   <<(poly[k][1] - 2 * Milli * Milli * b[1]) \div Milli,
                     (poly[k][2] - 2 * Milli * Milli * b[2]) \div Milli>>]
        bx  == Rect(0, 0, 2 * Milli * (b[3] - b[1]), 2 * Milli * (b[4] - b[2]))
    IN  ~Separated(q, bx) /\ ~Separated(bx, q)

\* gdf_fields['planting_date'] <= date
PlantedBy(f, d) == DateLeq(f.planting_date, d)

\* The rows of gdf_fields after the two filters.
FieldsToProcess(fs, d) ==
    SelectSeq(fs, LAMBDA f : Intersects(f.polygon, PipelineBBox) /\ PlantedBy(f, d))

\* One result row.  sd holds the three dictionaries zonal_statistics returned
\* for the field.
ResultRow(f, d, sd) ==
    [field_id |-> f.id, field_name |-> f.name, crop_type |-> f.crop_type,
     date |-> d, days_since_planting |-> DaysBetween(f.planting_date, d),
     ndvi_mean |-> sd.ndvi.mean, ndvi_min |-> sd.ndvi.min,
     ndvi_max |-> sd.ndvi.max, ndvi_std |-> sd.ndvi.std,
     soil_moisture_mean |-> sd.soil_moisture.mean,
     soil_moisture_min |-> sd.soil_moisture.min,
     soil_moisture_max |-> sd.soil_moisture.max,
     soil_moisture_std |-> sd.soil_moisture.std,
     temperature_mean |-> sd.temperature.mean, temperature_min |-> sd.temperature.min,
     temperature_max |-> sd.temperature.max, temperature_std |-> sd.temperature.std]

CsvColumns ==
    <<"field_id", "field_name", "crop_type", "date", "days_since_planting",
      "ndvi_mean", "ndvi_min", "ndvi_max", "ndvi_std",
      "soil_moisture_mean", "soil_moisture_min", "soil_moisture_max", "soil_moisture_std",
      "temperature_mean", "temperature_min", "temperature_max", "temperature_std">>

\* df_results.to_csv(index=False): a header line and one line of values per row.
ToCsv(rows) ==
    [header |-> CsvColumns,
     lines  |-> [i \in 1..Len(rows) |-> [k \in 1..Len(CsvColumns) |-> rows[i][CsvColumns[k]]]]]

\* df_results.to_json(orient="records"): the list of row objects.
ToJsonRecords(rows) == rows

\* create_raster_plot(...): the PNG of a raster of the run.
RasterPlot(kind, d) == <<"png", kind, d>>

\* The blobs a run with result rows writes, all with overwrite=True.
SaveResults(st, d, rows) ==
    (BlobName("hydrosat_data.csv", d) :> ToCsv(rows))
    @@ (BlobName("hydrosat_data.json", d) :> ToJsonRecords(rows))
    @@ (BlobName("plots/ndvi.png", d) :> RasterPlot("ndvi", d))
    @@ (BlobName("plots/soil_moisture.png", d) :> RasterPlot("soil_moisture", d))
    @@ (BlobName("plots/temperature.png", d) :> RasterPlot("temperature", d))
    @@ st

-----------------------------------------------------------------------------
(* dependent_asset: day-over-day changes *)

\* (strptime(current_date) - timedelta(days=1)).strftime("%Y-%m-%d")
PrevDay(d) ==
    IF d[3] > 1 THEN <<d[1], d[2], d[3] - 1>>
    ELSE IF d[2] > 1 THEN <<d[1], d[2] - 1, DaysInMonth(d[1], d[2] - 1)>>
    ELSE <<d[1] - 1, 12, 31>>

\* A float64 result: <<"finite", v>>, <<"inf", sign>> or <<"nan", 0>>.
Finite(v) == <<"finite", v>>

\* The pandas quotient a / b of two columns, in units of 1 / scale: a zero
\* divisor gives inf, -inf or NaN and raises nothing.
FloatDiv(a, b, scale) ==
    IF b # 0 THEN Finite(TruncDiv(a * scale, b))
    ELSE IF a > 0 THEN <<"inf", 1>>
    ELSE IF a < 0 THEN <<"inf", -1>>
    ELSE <<"nan", 0>>

\* Series.fillna(0): NaN is replaced, every other value (inf too) is kept.
FillNa(v) == IF v[1] = "nan" THEN Finite(0) ELSE v

\* ((cur - prev) / prev * 100).fillna(0), in thousandths of a percent.
PctChange(cur, prev) == FillNa(FloatDiv(cur - prev, prev, 100 * Milli))

\* pd.read_csv(...): one row per line, the columns named by the header.
FromCsv(csv) ==
    [i \in 1..Len(csv.lines) |->
        [c \in {csv.header[k] : k \in 1..Len(csv.header)} |->
            csv.lines[i][CHOOSE k \in 1..Len(csv.header) : csv.header[k] = c]]]

\* on=["field_id", "field_name", "crop_type"]
MergeKeysEqual(c, p) ==
    /\ c.field_id = p.field_id
    /\ c.field_name = p.field_name
    /\ c.crop_type = p.crop_type

\* suffixes=('', '_prev'): the columns of the current row, and the other
\* columns of the previous row renamed.
MergeRow(c, p) ==
    c @@ [date_prev |-> p.date, days_since_planting_prev |-> p.days_since_planting,
          ndvi_mean_prev |-> p.ndvi_mean, ndvi_min_prev |-> p.ndvi_min,
          ndvi_max_prev |-> p.ndvi_max, ndvi_std_prev |-> p.ndvi_std,
          soil_moisture_mean_prev |-> p.soil_moisture_mean,
          soil_moisture_min_prev |-> p.soil_moisture_min,
          soil_moisture_max_prev |-> p.soil_moisture_max,
          soil_moisture_std_prev |-> p.soil_moisture_std,
          temperature_mean_prev |-> p.temperature_mean,
          temperature_min_prev |-> p.temperature_min,
          temperature_max_prev |-> p.temperature_max,
          temperature_std_prev |-> p.temperature_std]

\* pd.merge(current_data, prev_data, on=...): an inner join in the order of
\* the current rows.
RECURSIVE Merge(_, _)
Merge(cur, prev) ==
    IF cur = <<>> THEN <<>>
    ELSE LET m == SelectSeq(prev, LAMBDA p : MergeKeysEqual(Head(cur), p))
         IN  [k \in 1..Len(m) |-> MergeRow(Head(cur), m[k])] \o Merge(Tail(cur), prev)

\* The change columns of a merged row: differences in thousandths, growth_rate
\* in millionths per day.
WithChanges(r) ==
    r @@ [ndvi_mean_change |-> r.ndvi_mean - r.ndvi_mean_prev,
          ndvi_mean_pct_change |-> PctChange(r.ndvi_mean, r.ndvi_mean_prev),
          soil_moisture_mean_change |-> r.soil_moisture_mean - r.soil_moisture_mean_prev,
          soil_moisture_mean_pct_change |->
              PctChange(r.soil_moisture_mean, r.soil_moisture_mean_prev),
          temperature_mean_change |-> r.temperature_mean - r.temperature_mean_prev,
          growth_rate |->
              FloatDiv(r.ndvi_mean - r.ndvi_mean_prev, r.days_since_planting, Milli)]

ChangeColumns ==
    CsvColumns \o
    <<"date_prev", "days_since_planting_prev",
      "ndvi_mean_prev", "ndvi_min_prev", "ndvi_max_prev", "ndvi_std_prev",
      "soil_moisture_mean_prev", "soil_moisture_min_prev", "soil_moisture_max_prev",
      "soil_moisture_std_prev",
      "temperature_mean_prev", "temperature_min_prev", "temperature_max_prev",
      "temperature_std_prev",
      "ndvi_mean_change", "ndvi_mean_pct_change",
      "soil_moisture_mean_change", "soil_moisture_mean_pct_change",
      "temperature_mean_change", "growth_rate">>

\* merged_data.to_csv(index=False)
ChangesToCsv(rows) ==
    [header |-> ChangeColumns,
     lines  |-> [i \in 1..Len(rows) |->
                    [k \in 1..Len(ChangeColumns) |-> rows[i][ChangeColumns[k]]]]]

\* The summary figure of a field.
FieldSummaryPlot(r, d) ==
    <<"png", r.field_name, r.crop_type, d, r.days_since_planting,
      <<r.ndvi_mean_prev, r.ndvi_mean>>,
      <<r.soil_moisture_mean_prev, r.soil_moisture_mean>>,
      <<r.temperature_mean_prev, r.temperature_mean>>,
      <<r.ndvi_mean_change, r.soil_moisture_mean_change, r.temperature_mean_change>>>>

\* The first row of each field_id, in order: merged_data['field_id'].unique()
\* and .iloc[0].
RECURSIVE FirstRows(_, _)
FirstRows(rows, seen) ==
    IF rows = <<>> THEN <<>>
    ELSE IF Head(rows).field_id \in seen THEN FirstRows(Tail(rows), seen)
    ELSE <<Head(rows)>> \o FirstRows(Tail(rows), seen \cup {Head(rows).field_id})

RECURSIVE UploadPlots(_, _, _)
UploadPlots(st, d, firsts) ==
    IF firsts = <<>> THEN st
    ELSE UploadPlots(
             UploadBlob(st, BlobName("plots/field_summary.png", <<Head(firsts).field_id, d>>),
                        FieldSummaryPlot(Head(firsts), d)),
             d, Tail(firsts))

\* The blobs a run with merged rows writes.
SaveChanges(st, d, rows) ==
    UploadPlots(UploadBlob(st, BlobName("hydrosat_changes.csv", d), ChangesToCsv(rows)),
                d, FirstRows(rows, {}))

\* Variant: nothing is returned when the previous day cannot be read.
OnLoadError_empty(current_data) == <<>>

\* except Exception: "For the first day or if previous data doesn't exist,
\* return just the current data".
OnLoadError(current_data) == current_data

\* dependent_asset for partition d.  current_data is the value of the
\* hydrosat_data asset; download_fails: download_blob raised although the
\* previous day's file exists (when it does not exist it always raises).
dependent_asset(st, d, current_data, download_fails) ==
    LET prev_filename == BlobName("hydrosat_data.csv", PrevDay(d))
    IN  IF current_data = <<>>
        THEN [storage |-> st, returned |-> <<>>]
        ELSE IF ~HasBlob(st, prev_filename) \/ download_fails
        THEN [storage |-> st, returned |-> OnLoadError(current_data)]
        ELSE LET merged == Merge(current_data, FromCsv(st[prev_filename]))
             IN  IF merged # <<>>
                 THEN LET merged_data == [i \in 1..Len(merged) |-> WithChanges(merged[i])]
                      IN  [storage |-> SaveChanges(st, d, merged_data),
                           returned |-> merged_data]
                 ELSE [storage |-> st, returned |-> <<>>]

-----------------------------------------------------------------------------
(* Inputs of the runs *)

MaxRuns == 3         \* asset runs in a behaviour

PipelineFields == 2  \* the number of generated fields (the asset asks for 8)

\* Partition keys: the first three days of daily_partitions.
PartitionDates == {AddDays(start_date, k) : k \in 0..2}

\* The random draws of a generated field in the runs: planted on the first or
\* on the second day.
PipelineDraws ==
    {[ux |-> 200, uy |-> 800, crop |-> "Corn", t |-> 0, angle |-> 45, day |-> k] :
        k \in 0..1}

\* What zonal_statistics returns for the three rasters of a run on a field
\* that holds pixel centres.  The 100 x 100 rasters of a run are not built
\* here: the statistics are drawn, in thousandths, one draw for the fields of
\* a run.
StatDraws ==
    {[ndvi          |-> [mean |-> 0, min |-> 0, max |-> 0, std |-> 0],
      soil_moisture |-> [mean |-> 0, min |-> 0, max |-> 0, std |-> 0],
      temperature   |-> [mean |-> -2000, min |-> -4000, max |-> 0, std |-> 1000]],
     [ndvi          |-> [mean |-> 400, min |-> 300, max |-> 500, std |-> 50],
      soil_moisture |-> [mean |-> 350, min |-> 250, max |-> 450, std |-> 80],
      temperature   |-> [mean |-> 20000, min |-> 18000, max |-> 22000, std |-> 1000]]}

PipelineInit ==
    /\ pc = "idle"
    /\ ZonalIdle
    /\ GenIdle
    /\ FieldIdle
    /\ storage = <<>>
    /\ returned = Null
    /\ runs = 0
    /\ partition_key = Null
    /\ asset_values = <<>>
    /\ outputs = Null /\ handled = Null /\ loaded = Null

\* The try/except of hydrosat_data: the fields of the run and the storage
\* after it.  download_fails: download_blob raised although the blob exists (a
\* storage or network error); when the blob does not exist it always raises.
\* Any exception leads to new random fields (draws), uploaded with
\* overwrite=True.
LoadOrGenerateFields(st, download_fails, draws) ==
    IF HasBlob(st, fields_filename) /\ ~download_fails
    THEN [fields |-> FieldsFromJson(st[fields_filename]), storage |-> st]
    ELSE LET fs == generate_random_field_polygons(
                       PipelineBBox, PipelineFields, DefaultMinSize, DefaultMaxSize, draws)
         IN  [fields |-> fs, storage |-> UploadBlob(st, fields_filename, FieldsToJson(fs))]

\* Variant: the results are saved even when there is no field to process.
ProcessFields_saves_empty(st, d, gdf, sd) ==
    LET rows == [i \in 1..Len(gdf) |-> ResultRow(gdf[i], d, sd[i])]
    IN  [storage |-> SaveResults(st, d, rows), returned |-> rows]

\* The rest of hydrosat_data for partition d: gdf are the fields to process,
\* sd the statistics zonal_statistics returns for them.
ProcessFields(st, d, gdf, sd) ==
    IF gdf = <<>>
    THEN [storage |-> st, returned |-> <<>>]
    ELSE LET rows == [i \in 1..Len(gdf) |-> ResultRow(gdf[i], d, sd[i])]
         IN  [storage |-> SaveResults(st, d, rows), returned |-> rows]

HydrosatData ==
    /\ runs < MaxRuns
    /\ \E d \in PartitionDates, download_fails \in BOOLEAN,
          draws \in [1..PipelineFields -> PipelineDraws] :
          \E got \in {LoadOrGenerateFields(storage, download_fails, draws)} :
             \E gdf \in {FieldsToProcess(got.fields, d)} :
                \E sd \in StatDraws :
                   \E run \in {ProcessFields(got.storage, d, gdf, [i \in 1..Len(gdf) |-> sd])} :
                      /\ storage' = run.storage
                      /\ returned' = run.returned
                      /\ partition_key' = d
                      /\ asset_values' = (d :> run.returned) @@ asset_values
    /\ runs' = runs + 1
    /\ pc' = "hydrosat_data"
    /\ UNCHANGED <<outputs, handled, loaded, zonalVars, genVars, fieldVars>>

\* A run of dependent_asset for a partition whose hydrosat_data value exists.
DependentAsset ==
    /\ runs < MaxRuns
    /\ \E d \in DOMAIN asset_values, download_fails \in BOOLEAN :
          \E run \in {dependent_asset(storage, d, asset_values[d], download_fails)} :
             /\ storage' = run.storage
             /\ returned' = run.returned
             /\ partition_key' = d
    /\ runs' = runs + 1
    /\ pc' = "dependent_asset"
    /\ UNCHANGED <<asset_values, outputs, handled, loaded, zonalVars, genVars, fieldVars>>

PipelineNext == HydrosatData \/ DependentAsset

SpecPipeline == PipelineInit /\ [][PipelineNext]_vars

-----------------------------------------------------------------------------
(* SimplePickleIOManager (resources.py) *)

\* handle_output(context, obj): logs and returns; nothing is written.
handle_output(blobs, key, obj) == blobs

\* load_input(context): logs and returns pd.DataFrame().
load_input(blobs, key) == <<>>

IoAssets == {"hydrosat_data", "dependent_asset"}

\* <<asset_key, partition_key>> of an output
IoKeys == IoAssets \X PartitionDates

\* Asset outputs: an empty DataFrame, and DataFrames of one and two rows.
IoObjects ==
    {<<>>,
     <<[field_id |-> <<"field", 1>>, ndvi_mean |-> 400]>>,
     <<[field_id |-> <<"field", 1>>, ndvi_mean |-> 0],
       [field_id |-> <<"field", 2>>, ndvi_mean |-> 400]>>}

\* After __init__: the container exists and is empty.
IoInit ==
    /\ pc = "idle"
    /\ ZonalIdle
    /\ GenIdle
    /\ FieldIdle
    /\ storage = Null /\ returned = Null /\ runs = 0
    /\ partition_key = Null /\ asset_values = Null
    /\ outputs = <<>>
    /\ handled = <<>>
    /\ loaded = Null

HandleOutput ==
    /\ \E key \in IoKeys, obj \in IoObjects :
          /\ outputs' = handle_output(outputs, key, obj)
          /\ handled' = (key :> obj) @@ handled
    /\ pc' = "handle_output"
    /\ UNCHANGED <<loaded, storage, returned, runs, partition_key, asset_values,
                   zonalVars, genVars, fieldVars>>

LoadInput ==
    /\ \E key \in IoKeys :
          loaded' = [key |-> key, obj |-> load_input(outputs, key)]
    /\ pc' = "load_input"
    /\ UNCHANGED <<outputs, handled, storage, returned, runs, partition_key, asset_values,
                   zonalVars, genVars, fieldVars>>

IoNext == HandleOutput \/ LoadInput

SpecIO == IoInit /\ [][IoNext]_vars

-----------------------------------------------------------------------------
(* Claims about zonal_statistics, checked under SpecZonal *)

x_origin == geotransform[1]

pixel_width == geotransform[2]

y_origin == geotransform[4]

pixel_height == Abs(geotransform[6])

\* The pixels of the whole raster whose centre the polygon contains.
InsideCells ==
    {c \in Cells(raster.height, raster.width) :
        PolyContains(polygon, 2 * x_origin + (2 * c[2] + 1) * pixel_width,
                              2 * y_origin - (2 * c[1] + 1) * pixel_height)}

RECURSIVE SumCells(_)
SumCells(S) ==
    IF S = {} THEN 0
    ELSE LET c == CHOOSE c \in S : TRUE IN raster.cells[c] + SumCells(S \ {c})

\* The polygon lies left of, right of, above or below the raster extent.
OutsideExtent ==
    LET b == PolyBounds(polygon)
    IN  \/ b[3] <= x_origin
        \/ b[1] >= x_origin + raster.width * pixel_width
        \/ b[2] >= y_origin
        \/ b[4] <= y_origin - raster.height * pixel_height

\* ... and is less than one pixel away from the edge it is beyond.
NearEdge ==
    LET b == PolyBounds(polygon)
    IN  \/ b[3] <= x_origin /\ b[3] > x_origin - pixel_width
        \/ b[2] >= y_origin /\ b[2] < y_origin + pixel_height

FullExtent ==
    Rect(x_origin, y_origin - raster.height * pixel_height,
         x_origin + raster.width * pixel_width, y_origin)

\* C1: count is the number of pixels of the whole raster whose centre the
\* polygon contains, min, max and mean are taken over exactly those pixels, and
\* the window derived from the polygon's bounds excludes none of them.
C1_CountsContainedCentres ==
    pc = "done" =>
        /\ stats.error = Null
        /\ stats.count = Cardinality(InsideCells)
        /\ reads = InsideCells
        /\ InsideCells # {} =>
              /\ stats.mean = <<SumCells(InsideCells), Cardinality(InsideCells)>>
              /\ \E c \in InsideCells : stats.min = raster.cells[c]
              /\ \E c \in InsideCells : stats.max = raster.cells[c]
              /\ \A c \in InsideCells :
                    stats.min <= raster.cells[c] /\ raster.cells[c] <= stats.max

\* A polygon reaching beyond the raster, with pixels of its window both
\* contained and not contained, and pixels with different values.
C1_Witness ==
    /\ pc = "done"
    /\ stats.count >= 2
    /\ stats.min < stats.max
    /\ Len(ScanWindow(raster, geotransform, polygon)) > stats.count
    /\ PolyBounds(polygon)[1] < x_origin

\* C2: for a polygon entirely outside the raster extent no error is raised,
\* count is 0, min, max, mean and std are null, and no cell outside
\* [0..height-1] x [0..width-1] is read.
C2_OutsideIsEmpty ==
    (pc = "done" /\ OutsideExtent) =>
        /\ stats.error = Null
        /\ stats.count = 0
        /\ stats.min = Null /\ stats.max = Null
        /\ stats.mean = Null /\ stats.std = Null
        /\ reads \subseteq Cells(raster.height, raster.width)

\* A polygon less than a pixel beyond an edge, whose window is not empty.
C2_Witness ==
    /\ pc = "done"
    /\ OutsideExtent
    /\ NearEdge
    /\ ScanWindow(raster, geotransform, polygon) # <<>>
    /\ stats.count = 0

\* C3: for the polygon that exactly covers the raster extent, count is
\* height * width and mean is the arithmetic mean of all cell values.
C3_FullExtent ==
    (pc = "done" /\ polygon = FullExtent) =>
        /\ stats.count = raster.height * raster.width
        /\ stats.mean = <<SumCells(Cells(raster.height, raster.width)),
                          raster.height * raster.width>>

C3_Witness ==
    /\ pc = "done"
    /\ polygon = FullExtent
    /\ raster.height >= 2 /\ raster.width >= 2
    /\ stats.count = raster.height * raster.width
    /\ stats.min < stats.max

\* C4: when the polygon contains the centre of exactly one pixel (r, c), count
\* is 1 and min = max = mean = raster[r, c], row 0 being the top row; for bbox
\* (0, 0, 1, 1) at resolution 0.5 (here 4 x 4 map units at resolution 2) a
\* polygon around the point (0.25, 0.75) (here (1, 3)) selects raster[0, 0].
C4_SinglePixel ==
    pc = "done" =>
        /\ \A c \in InsideCells :
              InsideCells = {c} =>
                 /\ stats.count = 1
                 /\ stats.min = raster.cells[c] /\ stats.max = raster.cells[c]
                 /\ stats.mean = <<raster.cells[c], 1>>
        /\ (/\ raster.height = 2 /\ raster.width = 2
            /\ geotransform = <<0, 2, 0, 4, 0, -2>>
            /\ PolyContains(polygon, 2, 6)
            /\ PolyBounds(polygon)[3] <= 3 /\ PolyBounds(polygon)[2] >= 1)
           => (reads = {<<0, 0>>} /\ stats.mean = <<raster.cells[<<0, 0>>], 1>>)

\* The scenario of the claim, on a raster whose four cells differ.
C4_Witness ==
    /\ pc = "done"
    /\ raster = RasterOf(2, 2, 1)
    /\ geotransform = <<0, 2, 0, 4, 0, -2>>
    /\ polygon = Rect(0, 2, 2, 4)
    /\ stats.count = 1
    /\ stats.min = raster.cells[<<0, 0>>]

-----------------------------------------------------------------------------
(* Claims about the raster generators, checked under SpecRaster *)

\* Python round(a / b) for a >= 0, b > 0: to the nearest integer, a tie to the
\* even one.
PyRound(a, b) ==
    LET q == a \div b
        r == a % b
    IN  IF 2 * r < b THEN q
        ELSE IF 2 * r > b THEN q + 1
        ELSE IF q % 2 = 0 THEN q ELSE q + 1

\* A call of a generator that computes the grid, on a valid box.
GridCall ==
    /\ pc = "done"
    /\ out.kind \in {"ndvi", "temperature"}
    /\ resolution > 0
    /\ bbox[1] < bbox[3] /\ bbox[2] < bbox[4]

C6_UnitRange ==
    (pc = "done" /\ out.kind \in {"ndvi", "soil_moisture"} /\ out.status = "ok") =>
        \A c \in DOMAIN out.raster.cells :
            out.raster.cells[c] >= 0 /\ out.raster.cells[c] <= Milli

\* A vegetation raster in which the noise drove one cell to 0 and one to 1.
C6_Witness ==
    /\ pc = "done"
    /\ out.kind = "ndvi"
    /\ out.status = "ok"
    /\ \E c \in DOMAIN out.raster.cells : out.raster.cells[c] = 0
    /\ \E c \in DOMAIN out.raster.cells : out.raster.cells[c] = Milli

\* The inputs C8 calls invalid.
InvalidGeneratorInput ==
    \/ resolution <= 0
    \/ bbox[1] = bbox[3]
    \/ bbox[2] = bbox[4]
    \/ /\ out.kind = "soil_moisture"
       /\ \/ ndvi_raster.height # GridSize(bbox[4] - bbox[2], resolution)
          \/ ndvi_raster.width # GridSize(bbox[3] - bbox[1], resolution)

\* C8: a raster generator called with an invalid input (a non-positive
\* resolution, a degenerate bounding box or, for soil moisture, a vegetation
\* raster that does not match the grid of the bounding box and resolution)
\* fails with an error and returns no raster.
C8_InvalidInputFails ==
    (pc = "done" /\ InvalidGeneratorInput) =>
        (out.status # "ok" /\ out.raster = Null)

-----------------------------------------------------------------------------
(* Claims about generate_random_field_polygons, checked under SpecFields *)

ValidFieldParams ==
    /\ num_fields >= 0
    /\ min_size > 0 /\ max_size <= Milli /\ min_size <= max_size

\* C7: called with num_fields = N (and size fractions in (0, 1]) on a valid
\* bounding box, the generator returns exactly N records, each with 4 pairwise
\* distinct corners and a planting date from 2024-01-01 to 2024-04-30
\* inclusive, whatever the random draws.
C7_FieldRecords ==
    (pc = "done" /\ ValidFieldParams) =>
        /\ Len(fields) = num_fields
        /\ \A i \in 1..Len(fields) :
              /\ Len(fields[i].polygon) = 4
              /\ \A j, k \in 1..4 : j # k => fields[i].polygon[j] # fields[i].polygon[k]
              /\ DateLeq(<<2024, 1, 1>>, fields[i].planting_date)
              /\ DateLeq(fields[i].planting_date, <<2024, 4, 30>>)

\* Several fields, one planted on the last day, one rotated and one not.
C7_Witness ==
    /\ pc = "done"
    /\ ValidFieldParams
    /\ num_fields >= 2
    /\ Len(fields) = num_fields
    /\ fields[1].planting_date = <<2024, 4, 30>>
    /\ fields[2].planting_date = <<2024, 1, 1>>
    /\ fields[1].polygon[1][2] = fields[1].polygon[2][2]
    /\ fields[2].polygon[1][2] # fields[2].polygon[2][2]

\* C9: the generator fails, returning no field list, whenever num_fields < 0,
\* a size fraction is outside (0, 1], or min_size > max_size: no call with
\* such parameters reaches its return statement (pc = "done", where fields
\* holds the returned list).
C9_InvalidParamsFail ==
    ~(pc = "done" /\ ~ValidFieldParams)

-----------------------------------------------------------------------------
(* Claims about the runs of the assets, checked under SpecPipeline *)

\* C10: field definitions are generated, and field_definitions.json written,
\* only in a run that finds no field definitions in storage: once the blob
\* exists, every later run leaves it unchanged, whatever happens while
\* loading it.
C10_StoredFieldsKept ==
    [][HasBlob(storage, fields_filename) =>
          /\ HasBlob(storage', fields_filename)
          /\ storage'[fields_filename] = storage[fields_filename]]_vars

\* The per-date blobs of hydrosat_data for partition d.
PerDateBlobs(d) ==
    {BlobName(stem, d) :
        stem \in {"hydrosat_data.csv", "hydrosat_data.json", "plots/ndvi.png",
                  "plots/soil_moisture.png", "plots/temperature.png"}}

PrevCsvMissing ==
    ~HasBlob(storage, BlobName("hydrosat_data.csv", PrevDay(partition_key)))

\* C11 as stated: when hydrosat_data_<D-1>.csv does not exist, dependent_asset
\* for D returns an empty result.
C11_MissingPrevReturnsEmpty ==
    (pc = "dependent_asset" /\ PrevCsvMissing) => returned = <<>>

\* C11, amended: when hydrosat_data_<D-1>.csv does not exist, dependent_asset
\* for D skips the delta computation and returns the current day's data
\* unchanged (which is empty only when the current data is empty).
C11_MissingPrevReturnsCurrent ==
    (pc = "dependent_asset" /\ PrevCsvMissing) => returned = asset_values[partition_key]

\* A run without the previous day's file, on current data that has rows.
C11_Witness ==
    /\ pc = "dependent_asset"
    /\ PrevCsvMissing
    /\ asset_values[partition_key] # <<>>
    /\ returned = asset_values[partition_key]

\* C13: every row hydrosat_data outputs is of a field planted strictly before
\* the partition date: days_since_planting >= 1.
C13_RowsAfterPlanting ==
    pc = "hydrosat_data" =>
        \A i \in 1..Len(returned) : returned[i].days_since_planting >= 1

\* The rows of the merged change table dependent_asset returned.
MergedRows ==
    IF pc = "dependent_asset"
    THEN {returned[i] : i \in {k \in 1..Len(returned) : "growth_rate" \in DOMAIN returned[k]}}
    ELSE {}

\* C14: whenever the previous day's ndvi_mean or soil_moisture_mean is 0, the
\* metric's pct_change is 0, whatever the current value; the column never
\* holds an infinite or undefined value.
C14_ZeroPrevGivesZeroPct ==
    \A r \in MergedRows :
        /\ r.ndvi_mean_prev = 0 => r.ndvi_mean_pct_change = Finite(0)
        /\ r.soil_moisture_mean_prev = 0 => r.soil_moisture_mean_pct_change = Finite(0)
        /\ r.ndvi_mean_pct_change[1] = "finite"
        /\ r.soil_moisture_mean_pct_change[1] = "finite"

\* C15: after any sequence of runs, every row of the merged change table has
\* days_since_planting >= 1, so growth_rate is never a division by zero.
C15_GrowthRateDefined ==
    \A r \in MergedRows :
        /\ r.days_since_planting >= 1
        /\ r.growth_rate[1] = "finite"

\* C16: a hydrosat_data run for date D that has no field to process returns
\* an empty table and leaves the five per-date blobs of D as they were:
\* neither created nor overwritten.
C16_EmptyRunWritesNothing ==
    [][(pc' = "hydrosat_data" /\ returned' = <<>>) =>
          \A name \in PerDateBlobs(partition_key') :
              /\ HasBlob(storage', name) <=> HasBlob(storage, name)
              /\ HasBlob(storage, name) => storage'[name] = storage[name]]_vars

\* An empty run for a date whose blobs an earlier run wrote.
C16_Witness ==
    /\ pc = "hydrosat_data"
    /\ returned = <<>>
    /\ \A name \in PerDateBlobs(partition_key) : HasBlob(storage, name)

-----------------------------------------------------------------------------
(* Claims about the IO manager, checked under SpecIO *)

\* C12: an output given to handle_output for an (asset, partition) is
\* persisted, and a later load_input for that (asset, partition) returns it.
C12_LoadReturnsHandled ==
    (pc = "load_input" /\ loaded.key \in DOMAIN handled) =>
        /\ loaded.obj = handled[loaded.key]
        /\ outputs # <<>>

====
